---------------------------- MODULE Spec2Model ----------------------------
(***************************************************************************)
(* A model of the pilot ledger, the shop purchase flow and the flight-log  *)
(* state machine of src/app.py (Flask + SQLAlchemy).                       *)
(*                                                                         *)
(* Spec serves one request at a time: every HTTP request is one action.    *)
(* SpecConc lets the handlers that update a pilot row interleave between   *)
(* their load and their commit.  The session cookie travels with the       *)
(* request, so the acting pilot is an input of each action (NoSession when *)
(* the cookie carries no pilot_id).  Text columns are sequences of tokens: *)
(* an item id is one token, "," and " " are the separator characters.      *)
(* datetime.utcnow() is a clock that has advanced at every reading.  The   *)
(* descriptive FlightLog columns (flight number, airports, cargo, times)   *)
(* are validated at creation and never read back by a handler; the rows of *)
(* the model keep the columns the handlers read or write afterwards.       *)
(***************************************************************************)
EXTENDS Integers, Sequences, FiniteSets, TLC

VARIABLES
    pilots,     \* Pilot table: id -> row (the ledger columns)
    logs,       \* FlightLog table: sequence of rows, primary key = index
    clock,      \* number of datetime.utcnow() readings taken so far
    response,   \* the last request served (op, sess, target) and its response
    txns,       \* requests in flight between their read and their commit
    history     \* history variable: what the handlers have answered so far

vars == <<pilots, logs, clock, response, txns, history>>

(***************************************************************************)
(* Bounds of the model.                                                    *)
(***************************************************************************)
MaxWrites == 3      \* flight logs created + ends committed + purchases committed

(***************************************************************************)
(* Static data.                                                            *)
(***************************************************************************)
NoSession == 0
Null == 0
PilotIds == {1, 2}
Sessions == PilotIds \cup {NoSession}

\* SHOP_ITEMS, flattened in the order the lookup loop visits it.
SHOP_ITEMS ==
    << [id |-> "boeing_767", price |-> 25000],
       [id |-> "boeing_777", price |-> 35000],
       [id |-> "airbus_a330", price |-> 32000],
       [id |-> "boeing_747", price |-> 45000],
       [id |-> "first_officer", price |-> 5000],
       [id |-> "captain", price |-> 12000],
       [id |-> "check_airman", price |-> 20000],
       [id |-> "cargo_express", price |-> 2500],
       [id |-> "international_freight", price |-> 4000],
       [id |-> "emergency_medical", price |-> 6000] >>

CatalogIds == {SHOP_ITEMS[i].id : i \in 1..Len(SHOP_ITEMS)}

\* item ids a client may put in /purchase/<item_id>
ItemIds == CatalogIds \cup {"concorde"}

\* item ids the modelled clients ask for: one the sample pilot owns, one priced
\* at exactly the sample pilot's balance (and beyond the other pilot's), a
\* cheap one, and one that is not in the catalog
RequestedItems == {"boeing_777", "boeing_747", "cargo_express", "concorde"}

\* durations (seconds) a client may report to /end
Durations == {-3601, 5399}
\* JSON bodies of an end request: <<>> has no "duration" key, <<d>> carries d
EndBodies == {<<>>} \cup {<<d>> : d \in Durations}

\* form fields of a flight-log POST: <<>> is a missing field, <<v>> carries v
FlightNumbers ==
    { <<"G", "T", "I", "_", "4", "2">>,
      <<"G", "T", "I", "_", "a", "b">>,
      <<"G", "T", "I", "_">>,
      <<"A", "B", "C", "_", "1">> }
FlightNumberFields == {<<>>} \cup {<<f>> : f \in FlightNumbers}
IsoTimes == {"2024-05-01T10:00"}
DepartureTimeFields == {<<"2024-05-01T10:00">>, <<"tomorrow">>}
\* a GET carries no form; a POST carries the two validated fields
AddFlightLogRequests ==
    {[method |-> "GET", flight_number |-> <<>>, departure_time |-> <<>>]}
    \cup [method : {"POST"}, flight_number : FlightNumberFields,
          departure_time : DepartureTimeFields]

REWARD_CARGO == 50
REWARD_MONEY == 50
SECONDS_PER_HOUR == 3600

(***************************************************************************)
(* Pilot.get_aircraft_list / Pilot.add_aircraft on the comma-separated     *)
(* aircraft_owned column.                                                  *)
(***************************************************************************)
Comma == ","
Space == " "

Str(id) == <<id>>

HasComma(s) == \E i \in 1..Len(s) : s[i] = Comma

FirstComma(s) == CHOOSE i \in 1..Len(s) :
                    /\ s[i] = Comma
                    /\ \A j \in 1..(i-1) : s[j] # Comma

RECURSIVE Split(_)
Split(s) ==
    IF ~HasComma(s) THEN <<s>>
    ELSE LET i == FirstComma(s)
         IN  <<SubSeq(s, 1, i-1)>> \o Split(SubSeq(s, i+1, Len(s)))

RECURSIVE Strip(_)
Strip(s) ==
    IF s = <<>> THEN s
    ELSE IF Head(s) = Space THEN Strip(Tail(s))
    ELSE IF s[Len(s)] = Space THEN Strip(SubSeq(s, 1, Len(s)-1))
    ELSE s

RECURSIVE NonEmptyStripped(_)
NonEmptyStripped(segs) ==
    IF segs = <<>> THEN <<>>
    ELSE LET x == Strip(Head(segs))
         IN  (IF x # <<>> THEN <<x>> ELSE <<>>) \o NonEmptyStripped(Tail(segs))

get_aircraft_list(aircraft_owned) ==
    IF aircraft_owned # <<>> THEN NonEmptyStripped(Split(aircraft_owned))
    ELSE <<>>

InList(x, list) == \E i \in 1..Len(list) : list[i] = x

RECURSIVE Join(_)
Join(list) ==
    IF list = <<>> THEN <<>>
    ELSE IF Len(list) = 1 THEN list[1]
    ELSE list[1] \o <<Comma, Space>> \o Join(Tail(list))

add_aircraft(aircraft_owned, aircraft_id) ==
    LET current_aircraft == get_aircraft_list(aircraft_owned)
    IN  IF ~InList(Str(aircraft_id), current_aircraft)
        THEN Join(Append(current_aircraft, Str(aircraft_id)))
        ELSE aircraft_owned



(***************************************************************************)
(* Rows and the initial database (db.create_all and the sample pilot; the  *)
(* second pilot carries the column defaults).                              *)
(***************************************************************************)
SamplePilot ==
    [balance |-> 45000, hours |-> 0, completed_flights |-> 0,
     cargo_delivered |-> 0,
     aircraft_owned |-> <<"boeing_767", Comma, Space, "boeing_777">>]

DefaultPilot ==
    [balance |-> 25000, hours |-> 0, completed_flights |-> 0,
     cargo_delivered |-> 0, aircraft_owned |-> <<>>]

InitPilots == [p \in PilotIds |-> IF p = 1 THEN SamplePilot ELSE DefaultPilot]

\* a row that records the sample pilot as owner whoever is logged in
NewFlightLogOfSamplePilot(pilot_id) ==
    [pilot_id |-> 1, status |-> "In Progress", flight_duration |-> 0,
     completed_at |-> Null]

NewFlightLog(pilot_id) ==
    [pilot_id |-> pilot_id, status |-> "In Progress", flight_duration |-> 0,
     completed_at |-> Null]

InitHistory ==
    [rewards |-> [p \in PilotIds |-> 0],
     purchased |-> [p \in PilotIds |-> {}],
     npurchases |-> 0]

\* rows inserted, ends and purchases committed so far (what MaxWrites bounds)
Writes == Len(logs) + clock + history.npurchases

Init ==
    /\ pilots = InitPilots
    /\ logs = <<>>
    /\ clock = 0
    /\ response = [op |-> "none", sess |-> NoSession, code |-> 0]
    /\ txns = <<>>
    /\ history = InitHistory

(***************************************************************************)
(* db.session.commit(): the UPDATE carries the columns whose value differs *)
(* from the value loaded; the other columns keep what the table holds.     *)
(***************************************************************************)
Flush(loaded, new, current) ==
    [c \in DOMAIN current |-> IF new[c] # loaded[c] THEN new[c] ELSE current[c]]

(***************************************************************************)
(* Responses.                                                              *)
(***************************************************************************)
\* an error answer where the page routes redirect
LoginRedirectAsError(op) ==
    [op |-> op, sess |-> NoSession, code |-> 401, error |-> "Unauthorized"]

LoginRedirect(op) ==
    [op |-> op, sess |-> NoSession, code |-> 302, location |-> "login"]

NoSessionApi(op) ==
    [op |-> op, sess |-> NoSession, code |-> 401, error |-> "Unauthorized"]

Unauthorized(op, sess, log_id) ==
    [op |-> op, sess |-> sess, log_id |-> log_id, code |-> 401,
     error |-> "Unauthorized"]

NotFound404(op, sess, log_id) ==
    [op |-> op, sess |-> sess, log_id |-> log_id, code |-> 404]

(***************************************************************************)
(* /purchase/<item_id>                                                     *)
(***************************************************************************)
FindItem(item_id) ==
    IF \E i \in 1..Len(SHOP_ITEMS) : SHOP_ITEMS[i].id = item_id
    THEN LET i == CHOOSE i \in 1..Len(SHOP_ITEMS) :
                     /\ SHOP_ITEMS[i].id = item_id
                     /\ \A j \in 1..(i-1) : SHOP_ITEMS[j].id # item_id
         IN  <<SHOP_ITEMS[i]>>
    ELSE <<>>

\* mutant: only the first aircraft of the list is compared
AlreadyOwnedFirstOnly(pilot, item_id) ==
    LET list == get_aircraft_list(pilot.aircraft_owned)
    IN  list # <<>> /\ list[1] = Str(item_id)

\* mutant: the membership test without the strip of each segment
AlreadyOwnedUnstripped(pilot, item_id) ==
    InList(Str(item_id), Split(pilot.aircraft_owned))

AlreadyOwned(pilot, item_id) ==
    InList(Str(item_id), get_aircraft_list(pilot.aircraft_owned))

\* mutant: the balance is never tested
InsufficientFundsNever(pilot, item) == FALSE

\* mutant: a balance equal to the price is refused
InsufficientFundsOffByOne(pilot, item) == pilot.balance <= item.price

InsufficientFunds(pilot, item) == pilot.balance < item.price

\* the three checks with the balance tested before the ownership
PurchaseOutcomeFundsFirst(pilot, item_id) ==
    LET found == FindItem(item_id)
    IN  IF found = <<>> THEN "NotFound"
        ELSE IF InsufficientFunds(pilot, found[1]) THEN "InsufficientFunds"
        ELSE IF AlreadyOwned(pilot, item_id) THEN "AlreadyOwned"
        ELSE "Purchased"

PurchaseOutcome(pilot, item_id) ==
    LET found == FindItem(item_id)
    IN  IF found = <<>> THEN "NotFound"
        ELSE IF AlreadyOwned(pilot, item_id) THEN "AlreadyOwned"
        ELSE IF InsufficientFunds(pilot, found[1]) THEN "InsufficientFunds"
        ELSE "Purchased"

\* the item is added and the balance is left as it was
ProcessPurchaseNoCharge(pilot, item) ==
    [pilot EXCEPT !.aircraft_owned = add_aircraft(@, item.id)]

ProcessPurchase(pilot, item) ==
    [pilot EXCEPT !.balance = @ - item.price,
                  !.aircraft_owned = add_aircraft(@, item.id)]

PurchaseResponse(sess, item_id, outcome) ==
    [op |-> "purchase", sess |-> sess, code |-> 302, location |-> "shop",
     flash |-> outcome, item |-> item_id]

purchase(sess, item_id) ==
    /\ UNCHANGED <<logs, clock, txns>>
    /\ IF sess = NoSession
       THEN /\ response' = LoginRedirect("purchase")
            /\ UNCHANGED <<pilots, history>>
       ELSE LET pilot == pilots[sess]
                outcome == PurchaseOutcome(pilot, item_id)
            IN  /\ response' = PurchaseResponse(sess, item_id, outcome)
                /\ IF outcome = "Purchased"
                   THEN /\ Writes < MaxWrites
                        /\ pilots' = [pilots EXCEPT ![sess] =
                               Flush(pilot, ProcessPurchase(pilot, FindItem(item_id)[1]), pilot)]
                        /\ history' = [history EXCEPT
                               !.purchased[sess] = @ \cup {item_id},
                               !.npurchases = @ + 1]
                   ELSE UNCHANGED <<pilots, history>>

(***************************************************************************)
(* /add-flight-log                                                         *)
(***************************************************************************)
StartsWith(s, prefix) ==
    /\ Len(s) >= Len(prefix)
    /\ SubSeq(s, 1, Len(prefix)) = prefix

\* the test of line 462, negated: the flight number passes
FlightNumberAccepted(flight_number) ==
    ~(~StartsWith(flight_number, <<"G", "T", "I", "_">>) \/ Len(flight_number) < 5)

\* what the try block does: "raise" stands for any exception caught at 489
AddFlightLogOutcome(flight_number_field, departure_time_field) ==
    IF flight_number_field = <<>> THEN "raise"          \* None.startswith
    ELSE IF ~FlightNumberAccepted(flight_number_field[1]) THEN "bad_format"
    ELSE IF departure_time_field = <<>> THEN "raise"    \* fromisoformat(None)
    ELSE IF departure_time_field[1] \notin IsoTimes THEN "raise"
    ELSE "created"

add_flight_log(sess, method, flight_number_field, departure_time_field) ==
    /\ UNCHANGED <<pilots, clock, txns, history>>
    /\ IF sess = NoSession
       THEN /\ response' = LoginRedirect("add_flight_log")
            /\ UNCHANGED logs
       ELSE IF method # "POST"
       THEN /\ response' = [op |-> "add_flight_log", sess |-> sess, code |-> 200,
                            page |-> "add_flight_log.html", flash |-> "none"]
            /\ UNCHANGED logs
       ELSE LET outcome == AddFlightLogOutcome(flight_number_field, departure_time_field)
            IN  CASE outcome = "bad_format" ->
                       /\ response' = [op |-> "add_flight_log", sess |-> sess,
                                       code |-> 302, location |-> "add_flight_log",
                                       flash |-> "Flight number must be in GTI_XXXX format"]
                       /\ UNCHANGED logs
                  [] outcome = "raise" ->
                       /\ response' = [op |-> "add_flight_log", sess |-> sess,
                                       code |-> 200, page |-> "add_flight_log.html",
                                       flash |-> "Error adding flight log"]
                       /\ UNCHANGED logs
                  [] outcome = "created" ->
                       /\ Writes < MaxWrites
                       /\ logs' = Append(logs, NewFlightLog(sess))
                       /\ response' = [op |-> "add_flight_log", sess |-> sess,
                                       code |-> 302, location |-> "flight_tracker",
                                       log_id |-> Len(logs) + 1,
                                       flight_number |-> flight_number_field[1]]

(***************************************************************************)
(* /api/flight/<log_id>/pause, /resume, /end                               *)
(***************************************************************************)
LogExists(log_id) == log_id \in 1..Len(logs)

\* mutant: the sample pilot passes the ownership test on every log
OwnsOrSamplePilot(flight_log, pilot_id) ==
    \/ ~(flight_log.pilot_id # pilot_id)
    \/ pilot_id = 1

\* mutant: the ownership test left out
OwnsAnyone(flight_log, pilot_id) == TRUE

\* the ownership test of lines 538, 553 and 570
Owns(flight_log, pilot_id) == ~(flight_log.pilot_id # pilot_id)

\* a status write that also clears the completion time
SetStatusAndReopen(flight_log, status) ==
    [flight_log EXCEPT !.status = status, !.completed_at = Null]

SetStatus(flight_log, status) == [flight_log EXCEPT !.status = status]

pause_flight(sess, log_id) ==
    /\ UNCHANGED <<pilots, clock, txns, history>>
    /\ IF sess = NoSession
       THEN /\ response' = NoSessionApi("pause")
            /\ UNCHANGED logs
       ELSE IF ~LogExists(log_id)
       THEN /\ response' = NotFound404("pause", sess, log_id)
            /\ UNCHANGED logs
       ELSE IF ~Owns(logs[log_id], sess)
       THEN /\ response' = Unauthorized("pause", sess, log_id)
            /\ UNCHANGED logs
       ELSE /\ logs' = [logs EXCEPT ![log_id] =
                          Flush(@, SetStatus(@, "Paused"), @)]
            /\ response' = [op |-> "pause", sess |-> sess, code |-> 200,
                            status |-> "paused", log_id |-> log_id]

resume_flight(sess, log_id) ==
    /\ UNCHANGED <<pilots, clock, txns, history>>
    /\ IF sess = NoSession
       THEN /\ response' = NoSessionApi("resume")
            /\ UNCHANGED logs
       ELSE IF ~LogExists(log_id)
       THEN /\ response' = NotFound404("resume", sess, log_id)
            /\ UNCHANGED logs
       ELSE IF ~Owns(logs[log_id], sess)
       THEN /\ response' = Unauthorized("resume", sess, log_id)
            /\ UNCHANGED logs
       ELSE /\ logs' = [logs EXCEPT ![log_id] =
                          Flush(@, SetStatus(@, "In Progress"), @)]
            /\ response' = [op |-> "resume", sess |-> sess, code |-> 200,
                            status |-> "resumed", log_id |-> log_id]

\* data.get('duration', 0)
ReportedDuration(data) == IF data = <<>> THEN 0 ELSE data[1]

\* mutant: floor division
HoursAddedFloor(flight_duration_seconds) ==
    flight_duration_seconds \div SECONDS_PER_HOUR

\* int(flight_duration_seconds / 3600): int() drops the fraction, towards zero
HoursAdded(flight_duration_seconds) ==
    IF flight_duration_seconds >= 0
    THEN flight_duration_seconds \div SECONDS_PER_HOUR
    ELSE -((-flight_duration_seconds) \div SECONDS_PER_HOUR)

\* a completion that stores whole minutes where the client reported seconds
CompleteLogInMinutes(flight_log, flight_duration_seconds, now) ==
    [flight_log EXCEPT !.status = "Completed",
                       !.flight_duration = flight_duration_seconds \div 60,
                       !.completed_at = now]

CompleteLog(flight_log, flight_duration_seconds, now) ==
    [flight_log EXCEPT !.status = "Completed",
                       !.flight_duration = flight_duration_seconds,
                       !.completed_at = now]

\* mutant: cargo credited per hour flown instead of per flight
RewardPilotPerHour(pilot, flight_duration_seconds) ==
    [pilot EXCEPT !.hours = @ + HoursAdded(flight_duration_seconds),
                  !.completed_flights = @ + 1,
                  !.cargo_delivered = @ + REWARD_CARGO * HoursAdded(flight_duration_seconds),
                  !.balance = @ + REWARD_MONEY]

RewardPilot(pilot, flight_duration_seconds) ==
    [pilot EXCEPT !.hours = @ + HoursAdded(flight_duration_seconds),
                  !.completed_flights = @ + 1,
                  !.cargo_delivered = @ + REWARD_CARGO,
                  !.balance = @ + REWARD_MONEY]

EndResponse(sess, log_id, data, flight_duration_seconds) ==
    [op |-> "end", sess |-> sess, log_id |-> log_id, data |-> data,
     code |-> 200, status |-> "completed",
     hours_added |-> HoursAdded(flight_duration_seconds),
     cargo_added |-> 50, money_earned |-> 50]

end_flight(sess, log_id, data) ==
    /\ UNCHANGED txns
    /\ IF sess = NoSession
       THEN /\ response' = NoSessionApi("end")
            /\ UNCHANGED <<pilots, logs, clock, history>>
       ELSE IF ~LogExists(log_id)
       THEN /\ response' = NotFound404("end", sess, log_id)
            /\ UNCHANGED <<pilots, logs, clock, history>>
       ELSE IF ~Owns(logs[log_id], sess)
       THEN /\ response' = Unauthorized("end", sess, log_id)
            /\ UNCHANGED <<pilots, logs, clock, history>>
       ELSE LET pilot == pilots[sess]
                flight_log == logs[log_id]
                d == ReportedDuration(data)
            IN  /\ Writes < MaxWrites
                /\ clock' = clock + 1
                /\ logs' = [logs EXCEPT ![log_id] =
                              Flush(flight_log, CompleteLog(flight_log, d, clock + 1),
                                    flight_log)]
                /\ pilots' = [pilots EXCEPT ![sess] =
                              Flush(pilot, RewardPilot(pilot, d), pilot)]
                /\ history' = [history EXCEPT !.rewards[sess] = @ + 1]
                /\ response' = EndResponse(sess, log_id, data, d)

(***************************************************************************)
(* One request at a time: every handler runs from its read to its commit.  *)
(***************************************************************************)
LogIdInputs == 1..(Len(logs) + 1)

Next ==
    \/ \E sess \in Sessions, item_id \in RequestedItems : purchase(sess, item_id)
    \/ \E sess \in Sessions, r \in AddFlightLogRequests :
          add_flight_log(sess, r.method, r.flight_number, r.departure_time)
    \/ \E sess \in Sessions, log_id \in LogIdInputs : pause_flight(sess, log_id)
    \/ \E sess \in Sessions, log_id \in LogIdInputs : resume_flight(sess, log_id)
    \/ \E sess \in Sessions, log_id \in LogIdInputs, data \in EndBodies :
          end_flight(sess, log_id, data)

Spec == Init /\ [][Next]_vars

(***************************************************************************)
(* Concurrent requests.  A handler that updates a pilot row loads the row  *)
(* (Pilot.query.get), computes the new column values from what it loaded,  *)
(* and writes them at db.session.commit(); nothing locks or versions the   *)
(* row in between, so other requests may load and commit meanwhile.  txns  *)
(* holds the requests that have loaded and not yet committed.  An end      *)
(* reads the clock when it assigns completed_at, before its commit.        *)
(***************************************************************************)
InFlightPurchases ==
    Cardinality({i \in 1..Len(txns) : txns[i].op = "purchase"})

RemoveAt(seq, i) == SubSeq(seq, 1, i - 1) \o SubSeq(seq, i + 1, Len(seq))

\* lines 329-360: the session test, the load, the three checks, the new values
purchase_begin(sess, item_id) ==
    /\ UNCHANGED <<pilots, logs, clock, history>>
    /\ IF sess = NoSession
       THEN /\ response' = LoginRedirect("purchase")
            /\ UNCHANGED txns
       ELSE LET pilot == pilots[sess]
                outcome == PurchaseOutcome(pilot, item_id)
            IN  IF outcome = "Purchased"
                THEN /\ Writes + InFlightPurchases < MaxWrites
                     /\ txns' = Append(txns,
                           [op |-> "purchase", sess |-> sess, item |-> item_id,
                            loaded |-> pilot,
                            new |-> ProcessPurchase(pilot, FindItem(item_id)[1])])
                     /\ UNCHANGED response
                ELSE /\ response' = PurchaseResponse(sess, item_id, outcome)
                     /\ UNCHANGED txns

\* lines 361-364: the commit and the answer
purchase_commit(i) ==
    /\ txns[i].op = "purchase"
    /\ LET t == txns[i]
       IN  /\ pilots' = [pilots EXCEPT ![t.sess] = Flush(t.loaded, t.new, @)]
           /\ history' = [history EXCEPT !.purchased[t.sess] = @ \cup {t.item},
                                         !.npurchases = @ + 1]
           /\ response' = PurchaseResponse(t.sess, t.item, "Purchased")
    /\ txns' = RemoveAt(txns, i)
    /\ UNCHANGED <<logs, clock>>

\* lines 564-586: the session test, the loads, the ownership test, the new values
end_begin(sess, log_id, data) ==
    /\ UNCHANGED <<pilots, logs, history>>
    /\ IF sess = NoSession
       THEN /\ response' = NoSessionApi("end")
            /\ UNCHANGED <<txns, clock>>
       ELSE IF ~LogExists(log_id)
       THEN /\ response' = NotFound404("end", sess, log_id)
            /\ UNCHANGED <<txns, clock>>
       ELSE IF ~Owns(logs[log_id], sess)
       THEN /\ response' = Unauthorized("end", sess, log_id)
            /\ UNCHANGED <<txns, clock>>
       ELSE LET pilot == pilots[sess]
                flight_log == logs[log_id]
                d == ReportedDuration(data)
            IN  /\ Writes + InFlightPurchases < MaxWrites
                /\ clock' = clock + 1
                /\ txns' = Append(txns,
                      [op |-> "end", sess |-> sess, log_id |-> log_id, data |-> data,
                       loaded |-> pilot, new |-> RewardPilot(pilot, d),
                       loaded_log |-> flight_log,
                       new_log |-> CompleteLog(flight_log, d, clock + 1)])
                /\ UNCHANGED response

\* a commit that credits the pilot only while the log is not yet Completed
end_commit_once(i) ==
    /\ txns[i].op = "end"
    /\ LET t == txns[i]
       IN  /\ pilots' = [pilots EXCEPT ![t.sess] =
                            IF logs[t.log_id].status = "Completed"
                            THEN @ ELSE Flush(t.loaded, t.new, @)]
           /\ logs' = [logs EXCEPT ![t.log_id] = Flush(t.loaded_log, t.new_log, @)]
           /\ history' = [history EXCEPT !.rewards[t.sess] = @ + 1]
           /\ response' = EndResponse(t.sess, t.log_id, t.data, ReportedDuration(t.data))
    /\ txns' = RemoveAt(txns, i)
    /\ UNCHANGED clock

\* lines 588-598: the commit and the answer
end_commit(i) ==
    /\ txns[i].op = "end"
    /\ LET t == txns[i]
       IN  /\ pilots' = [pilots EXCEPT ![t.sess] = Flush(t.loaded, t.new, @)]
           /\ logs' = [logs EXCEPT ![t.log_id] = Flush(t.loaded_log, t.new_log, @)]
           /\ history' = [history EXCEPT !.rewards[t.sess] = @ + 1]
           /\ response' = EndResponse(t.sess, t.log_id, t.data, ReportedDuration(t.data))
    /\ txns' = RemoveAt(txns, i)
    /\ UNCHANGED clock

\* The requests whose handlers reach a commit are the ones that can race;
\* the requests refused at the session test, at get_or_404 or at the form
\* are served as in Spec and touch no row.
CreatingRequests ==
    {r \in AddFlightLogRequests :
        /\ r.method = "POST"
        /\ AddFlightLogOutcome(r.flight_number, r.departure_time) = "created"}

NextConc ==
    \/ \E sess \in PilotIds, r \in CreatingRequests :
          add_flight_log(sess, r.method, r.flight_number, r.departure_time)
    \/ \E sess \in PilotIds, item_id \in RequestedItems : purchase_begin(sess, item_id)
    \/ \E i \in 1..Len(txns) : purchase_commit(i)
    \/ \E sess \in PilotIds, log_id \in DOMAIN logs, data \in EndBodies :
          end_begin(sess, log_id, data)
    \/ \E i \in 1..Len(txns) : end_commit(i)

SpecConc == Init /\ [][NextConc]_vars

(***************************************************************************)
(* Vocabulary of the properties.  Every action records in response the     *)
(* request it served, so in a step response' tells which request the step  *)
(* served: Served(op) for a request of a logged-in pilot.                  *)
(***************************************************************************)
LogIds == 1..Len(logs)

\* the owned collection of a pilot row, as a set of item ids
OwnedIds(pilot) ==
    LET list == get_aircraft_list(pilot.aircraft_owned)
    IN  {id \in ItemIds : \E i \in 1..Len(list) : list[i] = <<id>>}

PriceOf(item_id) ==
    (CHOOSE i \in {SHOP_ITEMS[k] : k \in 1..Len(SHOP_ITEMS)} : i.id = item_id).price

TimerOps == {"pause", "resume", "end"}

\* the step served a pause, resume or end of a logged-in pilot on an existing log
ServedTimer ==
    /\ response'.op \in TimerOps
    /\ response'.sess \in PilotIds
    /\ response'.log_id \in LogIds

\* the step served a purchase request of a logged-in pilot
ServedPurchase ==
    /\ response'.op = "purchase"
    /\ response'.sess \in PilotIds

\* the duration a served end request reported
DurationOf(r) == IF r.data = <<>> THEN 0 ELSE r.data[1]

(***************************************************************************)
(* C1: Completed is terminal: once a flight log's status is Completed, no  *)
(* pause, resume or end on that log changes its status to anything else.   *)
(* The handlers refute it: pause and resume overwrite the status whatever  *)
(* it is.                                                                  *)
(***************************************************************************)
C1_CompletedIsTerminal ==
    [][\A l \in LogIds :
          logs[l].status = "Completed" => logs'[l].status = "Completed"]_vars

(***************************************************************************)
(* C2: in every reachable state completed_at is non-null if and only if    *)
(* the status is Completed.  Refuted by a pause or resume after an end.    *)
(***************************************************************************)
C2_CompletedAtIffCompleted ==
    \A l \in LogIds :
        (logs[l].completed_at # Null) <=> (logs[l].status = "Completed")

(***************************************************************************)
(* C3: the reward is applied exactly once per completed flight: the        *)
(* increase of a pilot's completed_flights equals the number of that       *)
(* pilot's flight logs that have been completed.  Refuted by a second end  *)
(* of the same log.                                                        *)
(***************************************************************************)
C3_RewardOncePerCompletedFlight ==
    \A p \in PilotIds :
        pilots[p].completed_flights - InitPilots[p].completed_flights
          = Cardinality({l \in LogIds : /\ logs[l].pilot_id = p
                                        /\ logs[l].completed_at # Null})

(***************************************************************************)
(* C4: a pause, resume or end request on a flight log whose pilot_id       *)
(* differs from the session's pilot answers 401 Unauthorized and leaves    *)
(* every flight log and every pilot row as it was.                         *)
(***************************************************************************)
C4_ForeignLogUntouched ==
    [][(ServedTimer /\ logs[response'.log_id].pilot_id # response'.sess)
         => /\ response'.code = 401
            /\ response'.error = "Unauthorized"
            /\ logs' = logs
            /\ pilots' = pilots]_vars

\* an end on the other pilot's flight log has been answered 401
C4_Witness ==
    /\ response.op = "end"
    /\ response.code = 401
    /\ response.sess \in PilotIds
    /\ response.log_id \in LogIds
    /\ logs[response.log_id].pilot_id # response.sess
    /\ logs[response.log_id].status = "In Progress"

TruncatesTowardsZero(h, d) ==
    IF d >= 0
    THEN h >= 0 /\ 3600 * h <= d /\ d < 3600 * (h + 1)
    ELSE h <= 0 /\ 3600 * h >= d /\ d > 3600 * (h - 1)

C6_FixedReward ==
    [][(/\ ServedTimer
        /\ response'.op = "end"
        /\ logs[response'.log_id].pilot_id = response'.sess)
         => LET sess == response'.sess
                l == response'.log_id
            IN  /\ pilots'[sess].cargo_delivered = pilots[sess].cargo_delivered + 50
                /\ pilots'[sess].balance = pilots[sess].balance + 50
                /\ pilots'[sess].completed_flights = pilots[sess].completed_flights + 1
                /\ logs'[l].status = "Completed"
                /\ response'.code = 200
                /\ response'.cargo_added = 50
                /\ response'.money_earned = 50
                /\ response'.cargo_added
                     = pilots'[sess].cargo_delivered - pilots[sess].cargo_delivered
                /\ response'.money_earned
                     = pilots'[sess].balance - pilots[sess].balance]_vars

\* an end reporting 5399 seconds has been served on the pilot's first flight
C6_Witness ==
    /\ response.op = "end"
    /\ response.code = 200
    /\ DurationOf(response) = 5399
    /\ logs[response.log_id].status = "Completed"
    /\ pilots[response.sess].cargo_delivered = 50
    /\ pilots[response.sess].completed_flights = 1

(***************************************************************************)
(* C7: across purchase and end requests, with whatever integer duration    *)
(* the client reports, a pilot's hours, cargo_delivered and                *)
(* completed_flights never decrease.  Refuted by an end that reports a     *)
(* duration of -3600 seconds or less: hours goes down.                     *)
(***************************************************************************)
C7_StatsNeverDecrease ==
    [][response'.op \in {"purchase", "end"}
         => \A p \in PilotIds :
               /\ pilots'[p].hours >= pilots[p].hours
               /\ pilots'[p].cargo_delivered >= pilots[p].cargo_delivered
               /\ pilots'[p].completed_flights >= pilots[p].completed_flights]_vars

(***************************************************************************)
(* C8: a purchase of an item id that is not in the catalog, or is already  *)
(* in the pilot's owned set, or costs more than the pilot's balance, fails *)
(* (NotFound, AlreadyOwned, InsufficientFunds) and leaves the balance and  *)
(* the owned-aircraft column unchanged.                                    *)
(***************************************************************************)
C8_FailedPurchaseChangesNothing ==
    [][(/\ ServedPurchase
        /\ \/ response'.item \notin CatalogIds
           \/ response'.item \in OwnedIds(pilots[response'.sess])
           \/ pilots[response'.sess].balance < PriceOf(response'.item))
         => LET sess == response'.sess
            IN  /\ response'.flash \in {"NotFound", "AlreadyOwned", "InsufficientFunds"}
                /\ pilots'[sess].balance = pilots[sess].balance
                /\ pilots'[sess].aircraft_owned = pilots[sess].aircraft_owned
                /\ OwnedIds(pilots'[sess]) = OwnedIds(pilots[sess])]_vars

\* the sample pilot has bought an item and then been refused, for lack of
\* funds, one that the starting balance would have paid
C8_Witness ==
    /\ response.op = "purchase"
    /\ response.sess = 1
    /\ response.flash = "InsufficientFunds"
    /\ pilots[1].balance < PriceOf(response.item)
    /\ PriceOf(response.item) <= InitPilots[1].balance
    /\ OwnedIds(pilots[1]) # OwnedIds(InitPilots[1])

(***************************************************************************)
(* C9: a purchase of a catalog item that is not yet owned succeeds exactly *)
(* when balance >= price; on success the balance goes down by exactly the  *)
(* price and the item id is in the owned set afterwards.                   *)
(***************************************************************************)
C9_PurchaseSucceedsIffAffordable ==
    [][(/\ ServedPurchase
        /\ response'.item \in CatalogIds
        /\ response'.item \notin OwnedIds(pilots[response'.sess]))
         => LET sess == response'.sess
                item_id == response'.item
            IN  /\ (response'.flash = "Purchased")
                     <=> (pilots[sess].balance >= PriceOf(item_id))
                /\ response'.flash = "Purchased"
                     => /\ pilots'[sess].balance
                             = pilots[sess].balance - PriceOf(item_id)
                        /\ OwnedIds(pilots'[sess])
                             = OwnedIds(pilots[sess]) \cup {item_id}]_vars

\* a purchase at a balance equal to the price has succeeded and left 0
C9_Witness ==
    /\ response.op = "purchase"
    /\ response.sess \in PilotIds
    /\ response.flash = "Purchased"
    /\ PriceOf(response.item) = InitPilots[response.sess].balance
    /\ pilots[response.sess].balance = 0
    /\ response.item \in OwnedIds(pilots[response.sess])

(***************************************************************************)
(* C10: purchase is atomic with respect to its pilot: when purchases and   *)
(* ends of one pilot interleave (each a load, a check and a later          *)
(* write-back), then once every request has committed each successful      *)
(* purchase shows in full: its item is in the owned set, and the price of  *)
(* every item the owned set gained has been taken from the balance.        *)
(* Refuted: the later commit writes values computed from the row as it was *)
(* loaded, and overwrites what the other request committed in between.     *)
(***************************************************************************)
RECURSIVE SumPrices(_)
SumPrices(ids) ==
    IF ids = {} THEN 0
    ELSE LET id == CHOOSE x \in ids : TRUE
         IN  PriceOf(id) + SumPrices(ids \ {id})

C10_PurchaseAtomic ==
    txns = <<>> =>
        \A p \in PilotIds :
            /\ history.purchased[p] \subseteq OwnedIds(pilots[p])
            /\ pilots[p].balance
                 + SumPrices(OwnedIds(pilots[p]) \ OwnedIds(InitPilots[p]))
                 <= InitPilots[p].balance + REWARD_MONEY * history.rewards[p]


Digits == {"0", "1", "2", "3", "4", "5", "6", "7", "8", "9"}

GtiThenDigits(flight_number) ==
    /\ StartsWith(flight_number, <<"G", "T", "I", "_">>)
    /\ Len(flight_number) >= 5
    /\ \A i \in 5..Len(flight_number) : flight_number[i] \in Digits

C12_CreatedOnlyForGtiDigits ==
    [][(response'.op = "add_flight_log" /\ Len(logs') > Len(logs))
         => GtiThenDigits(response'.flight_number)]_vars

(***************************************************************************)
(* C13: every successfully created flight log is owned by the pilot of the *)
(* session that created it and starts with status In Progress,             *)
(* flight_duration 0 and completed_at null; the step adds that one row and *)
(* leaves the earlier rows as they were.                                   *)
(***************************************************************************)
C13_CreatedLogIsFresh ==
    [][(response'.op = "add_flight_log" /\ logs' # logs)
         => /\ response'.sess \in PilotIds
            /\ response'.code = 302
            /\ response'.location = "flight_tracker"
            /\ Len(logs') = Len(logs) + 1
            /\ SubSeq(logs', 1, Len(logs)) = logs
            /\ response'.log_id = Len(logs')
            /\ logs'[Len(logs')].pilot_id = response'.sess
            /\ logs'[Len(logs')].status = "In Progress"
            /\ logs'[Len(logs')].flight_duration = 0
            /\ logs'[Len(logs')].completed_at = Null]_vars

\* pilot 2 has created a log while a log of pilot 1 exists
C13_Witness ==
    /\ response.op = "add_flight_log"
    /\ response.code = 302
    /\ response.location = "flight_tracker"
    /\ response.sess = 2
    /\ response.log_id = 2
    /\ Len(logs) = 2
    /\ logs[1].pilot_id = 1
    /\ logs[2] = [pilot_id |-> 2, status |-> "In Progress", flight_duration |-> 0,
                  completed_at |-> Null]

(***************************************************************************)
(* C14: every session-gated operation (create flight log, purchase, pause, *)
(* resume, end) requested without a session answers with a redirect to     *)
(* login, not with an error, and changes no state.                         *)
(* Refuted for the three API routes: they answer 401 Unauthorized.         *)
(***************************************************************************)
GatedOps == {"add_flight_log", "purchase", "pause", "resume", "end"}
PageOps == {"add_flight_log", "purchase"}

ServedWithoutSession ==
    /\ response'.op \in GatedOps
    /\ response'.sess = NoSession

C14_NoSessionRedirectsToLogin ==
    [][ServedWithoutSession
         => /\ response'.code = 302
            /\ response'.location = "login"
            /\ UNCHANGED <<pilots, logs, clock, txns, history>>]_vars

(***************************************************************************)
(* C14, as the code has it: without a session the page routes (create      *)
(* flight log, purchase) redirect to login, the API routes (pause, resume, *)
(* end) answer 401 with the error Unauthorized, and in every case no state *)
(* changes.                                                                *)
(***************************************************************************)
C14_NoSessionRedirectsOr401 ==
    [][ServedWithoutSession
         => /\ response'.op \in PageOps
                 => response'.code = 302 /\ response'.location = "login"
            /\ response'.op \in TimerOps
                 => response'.code = 401 /\ response'.error = "Unauthorized"
            /\ UNCHANGED <<pilots, logs, clock, txns, history>>]_vars

\* an end without a session, refused while a log In Progress exists
C14_Witness ==
    /\ response.op = "end"
    /\ response.sess = NoSession
    /\ response.code = 401
    /\ \E l \in LogIds : logs[l].status = "In Progress" /\ logs[l].completed_at = Null

(***************************************************************************)
(* C15: completed_at of a flight log is set once: after it has become      *)
(* non-null no pause, resume or end on that log changes its value.         *)
(* Refuted: end_flight assigns completed_at = utcnow() without reading the *)
(* status, so a second end of a Completed log moves completed_at.          *)
(***************************************************************************)
C15_CompletedAtSetOnce ==
    [][\A l \in LogIds :
          logs[l].completed_at # Null
            => logs'[l].completed_at = logs[l].completed_at]_vars

(***************************************************************************)
(* C16: flight log creation, pause and resume leave every Pilot field      *)
(* (balance, hours, completed_flights, cargo_delivered, owned aircraft)    *)
(* unchanged; pause and resume change nothing of a log but its status:     *)
(* owner, flight_duration and completed_at stay, of that log and of every  *)
(* other, and no row is added; the pilot statistics (hours,                *)
(* completed_flights, cargo_delivered) change only in an end step.         *)
(***************************************************************************)
Statistics(pilot) ==
    <<pilot.hours, pilot.completed_flights, pilot.cargo_delivered>>

C17_DurationIsReported ==
    [][/\ \A l \in 1..Len(logs') :
             logs'[l].completed_at = Null => logs'[l].flight_duration = 0
       /\ (/\ ServedTimer
           /\ response'.op = "end"
           /\ logs[response'.log_id].pilot_id = response'.sess)
            => /\ response'.code = 200
               /\ logs'[response'.log_id].flight_duration = DurationOf(response')
               /\ response'.data = <<>>
                     => logs'[response'.log_id].flight_duration = 0]_vars

\* a pilot's first end, reporting 5399 seconds, while another log is not yet ended
C17_Witness ==
    /\ response.op = "end"
    /\ response.code = 200
    /\ response.data = <<5399>>
    /\ history.rewards[response.sess] = 1
    /\ logs[response.log_id].flight_duration = 5399
    /\ \E l \in LogIds : logs[l].completed_at = Null /\ logs[l].flight_duration = 0

(***************************************************************************)
(* C18: the purchase checks are applied in the order NotFound,             *)
(* AlreadyOwned, InsufficientFunds: an item id that is not in the catalog  *)
(* is answered NotFound, and a catalog item that is already in the pilot's *)
(* owned set is answered AlreadyOwned whatever the balance, balances below *)
(* the item's price included; nothing changes in either case.              *)
(***************************************************************************)
C18_CheckOrder ==
    [][ServedPurchase
         => LET pilot == pilots[response'.sess]
                item_id == response'.item
            IN  /\ item_id \notin CatalogIds => response'.flash = "NotFound"
                /\ (item_id \in CatalogIds /\ item_id \in OwnedIds(pilot))
                     => /\ response'.flash = "AlreadyOwned"
                        /\ pilots' = pilots]_vars

\* an owned item refused as AlreadyOwned to a pilot who could not afford it
C18_Witness ==
    /\ response.op = "purchase"
    /\ response.sess \in PilotIds
    /\ response.flash = "AlreadyOwned"
    /\ response.item \in OwnedIds(pilots[response.sess])
    /\ pilots[response.sess].balance < PriceOf(response.item)

(***************************************************************************)
(* C19: starting from pilots whose balance is not negative, the balance of *)
(* every pilot is not negative in every reachable state, whatever the      *)
(* sequence and whatever the interleaving of the loads, checks and         *)
(* write-backs of concurrent purchases and ends.  A purchase writes the    *)
(* balance it loaded minus a price it found covered by that balance, an    *)
(* end writes the balance it loaded plus 50; the values awaiting their     *)
(* commit are not negative either.                                         *)
(***************************************************************************)
C19_BalanceNeverNegative ==
    /\ \A p \in PilotIds : pilots[p].balance >= 0
    /\ \A i \in 1..Len(txns) : txns[i].loaded.balance >= 0 /\ txns[i].new.balance >= 0

\* a balance spent down to 0 while a purchase that loaded the older, larger
\* balance still awaits its commit
C19_Witness ==
    \E i \in 1..Len(txns) :
        /\ txns[i].op = "purchase"
        /\ pilots[txns[i].sess].balance = 0
        /\ txns[i].loaded.balance > 0
        /\ txns[i].new.balance < txns[i].loaded.balance

(***************************************************************************)
(* C20: ledger conservation when requests run one at a time: in every      *)
(* state a pilot's balance equals the initial balance, plus 50 for each    *)
(* end applied for the pilot, minus the prices of the items the owned set  *)
(* has gained; the number of ends applied is the increase of               *)
(* completed_flights, and the increase of cargo_delivered is 50 times it.  *)
(***************************************************************************)
C20_LedgerConservation ==
    \A p \in PilotIds :
        LET gained == OwnedIds(pilots[p]) \ OwnedIds(InitPilots[p])
            flights == pilots[p].completed_flights - InitPilots[p].completed_flights
        IN  /\ flights = history.rewards[p]
            /\ gained = history.purchased[p]
            /\ pilots[p].balance
                 = InitPilots[p].balance + REWARD_MONEY * flights - SumPrices(gained)
            /\ pilots[p].cargo_delivered - InitPilots[p].cargo_delivered
                 = REWARD_CARGO * flights

\* the sample pilot after one end and the purchase of cargo_express
C20_Witness ==
    /\ history.purchased[1] = {"cargo_express"}
    /\ history.rewards[1] = 1
    /\ pilots[1].completed_flights = 1
    /\ pilots[1].balance = 45000 + REWARD_MONEY - 2500
    /\ pilots[1].cargo_delivered = REWARD_CARGO

(***************************************************************************)
(* C21: cross-pilot isolation: an operation (create, purchase, pause,      *)
(* resume, end) served under the session of pilot A leaves the row of      *)
(* every other pilot B as it was (balance, hours, completed_flights,       *)
(* cargo_delivered, owned aircraft), leaves every flight log owned by B as *)
(* it was, and adds no log owned by B; as this holds of every step it      *)
(* holds of every sequence of them.                                        *)
(***************************************************************************)
C21_CrossPilotIsolation ==
    [][(response'.op \in GatedOps /\ (pilots' # pilots \/ logs' # logs))
         => \A b \in PilotIds \ {response'.sess} :
               /\ pilots'[b] = pilots[b]
               /\ \A l \in LogIds : logs[l].pilot_id = b => logs'[l] = logs[l]
               /\ \A l \in 1..Len(logs') : l \notin LogIds => logs'[l].pilot_id # b]_vars

\* pilot 1 has ended a log of their own while pilot 2 owns a log in progress
C21_Witness ==
    /\ response.op = "end"
    /\ response.code = 200
    /\ response.sess = 1
    /\ logs[response.log_id].pilot_id = 1
    /\ pilots[1].completed_flights = 1
    /\ pilots[2] = InitPilots[2]
    /\ \E l \in LogIds :
          logs[l] = [pilot_id |-> 2, status |-> "In Progress", flight_duration |-> 0,
                     completed_at |-> Null]

(***************************************************************************)
(* C22: the owned-aircraft collection behaves as a set: after every step   *)
(* that writes a pilot row no item id occurs more than once in that        *)
(* pilot's list (the initial lists have none twice); and a pilot is never  *)
(* charged more than once for one item id: no step takes an id out of the  *)
(* collection, and a purchase that lowers the balance is for an id that    *)
(* was not in the collection before the step and is in it after, at that   *)
(* item's price.                                                           *)
(***************************************************************************)
NoDuplicates(list) ==
    \A i, j \in 1..Len(list) : list[i] = list[j] => i = j

OwnedOnce(pilot) == NoDuplicates(get_aircraft_list(pilot.aircraft_owned))

C22_OwnedIsSet ==
    [][\A p \in PilotIds :
          pilots'[p] # pilots[p]
            => LET before == OwnedIds(pilots[p])
                   after == OwnedIds(pilots'[p])
               IN  /\ OwnedOnce(pilots'[p])
                   /\ before \subseteq after
                   /\ (response'.op = "purchase"
                         /\ pilots'[p].balance < pilots[p].balance)
                        => /\ response'.sess = p
                           /\ response'.item \notin before
                           /\ after = before \cup {response'.item}
                           /\ pilots'[p].balance
                                = pilots[p].balance - PriceOf(response'.item)]_vars

\* a pilot who bought an item asks for it again, could pay it again, and is
\* told AlreadyOwned
C22_Witness ==
    /\ response.op = "purchase"
    /\ response.sess \in PilotIds
    /\ response.flash = "AlreadyOwned"
    /\ response.item \in history.purchased[response.sess]
    /\ pilots[response.sess].balance >= PriceOf(response.item)
    /\ OwnedOnce(pilots[response.sess])

=============================================================================
